---- MODULE Spec2Model ----
(***************************************************************************)
(* Model of src/src/wkhtmltopdf.rs: the Lambda handler `convert`, which    *)
(* builds the wkhtmltopdf command line (build_args), runs the renderer     *)
(* and uploads the produced PDF to S3 (upload).                            *)
(*                                                                         *)
(* One request is followed through the handler.  The handler is            *)
(* sequential; pc is its position between the blocking calls it makes.     *)
(* The local file system, the renderer process and S3 are collaborators    *)
(* whose outcomes are chosen nondeterministically.                         *)
(***************************************************************************)
EXTENDS Naturals, Sequences, FiniteSets

VARIABLES
    pc,         \* position of the handler: start, built, outfile, running, exited, done
    ev,         \* the PdfRequest being served
    fs,         \* temp files that exist on disk: path -> contents
    created,    \* history: every temp input file ever created, [path, page]
    args,       \* the argument vector under construction
    pageStart,  \* history: index in args of each page's type token
    files,      \* the _files vector of convert_inner (paths of owned input files)
    file,       \* the output NamedTempFile of convert_inner (its path), or None
    spawned,    \* history: every renderer process started, [path, fontconfig, args]
    output,     \* the std::process::Output of the renderer, <<>> before it exits
    region,     \* history: the Region resolved by upload, <<>> if none was
    puts,       \* history: every put_object call made, with its acknowledgement
    uploadEnv,  \* history: what upload met: S3_ENDPOINT, the output file, failures
    stages,     \* history: the stages run so far and whether each succeeded
    result,     \* what convert_inner returned, <<>> before it returns
    response    \* what convert returned to the runtime, <<>> before it returns

vars == <<pc, ev, fs, created, args, pageStart, files, file, spawned, output,
          region, puts, uploadEnv, stages, result, response>>

(***************************************************************************)
(* Bounds of the model.                                                    *)
(***************************************************************************)
MaxPages == 2
MaxOptions == 1
MaxPipelinePages == 1

None == "<none>"

(***************************************************************************)
(* Program constants.                                                      *)
(***************************************************************************)
WKHTMLTOPDF_LAYER_PATH == "/opt/bin/wkhtmltopdf"
WKHTMLTOPDF_BUNDLED_PATH == "/bin/wkhtmltopdf"
LocalFileAccessFlag == "--enable-local-file-access"
OutputPath == "/tmp/wkhtmltopdf-output0.pdf"
InputPaths == << "/tmp/wkhtmltopdf-input1.html", "/tmp/wkhtmltopdf-input2.html",
                 "/tmp/wkhtmltopdf-input3.html", "/tmp/wkhtmltopdf-input4.html",
                 "/tmp/wkhtmltopdf-input5.html", "/tmp/wkhtmltopdf-input6.html" >>
InputPath(k) == InputPaths[k]

(***************************************************************************)
(* Inputs.                                                                 *)
(***************************************************************************)
PageTypes == {"Cover", "Content", "TOC"}
ArgPageTypes == {"Content", "TOC"}

\* Display of PageType: the token the renderer understands.
PageTypeToString(t) ==
    CASE t = "Cover" -> "cover"
      [] t = "Content" -> "content"
      [] t = "TOC" -> "toc"

Options == { [name |-> "--zoom", value |-> "2"],
             [name |-> LocalFileAccessFlag, value |-> None] }

Urls == {None, "https://example.com/a.html"}

\* "PGI+" is the Base64 of "<b>"; "%%" is not Base64.
Base64Inputs == {None, "PGI+", "%%"}
DecodeError == "Invalid byte 37, offset 0."
Base64Decode(s) ==
    CASE s = "PGI+" -> [ok |-> TRUE, bytes |-> "<b>", error |-> None]
      [] OTHER -> [ok |-> FALSE, bytes |-> "", error |-> DecodeError]

RegionInputs == {None, "EU-West-1", "mars-1"}
Endpoints == {None, "http://localhost:9000"}

\* rusoto's Region::from_str: the name is lower-cased, then matched.
ToLowercase(s) ==
    CASE s = "EU-West-1" -> "eu-west-1"
      [] OTHER -> s
KnownRegions == {"eu-west-1", "ap-southeast-2", "us-east-1"}
RegionFromStr(s) ==
    IF ToLowercase(s) \in KnownRegions
    THEN [ok |-> TRUE, region |-> [name |-> ToLowercase(s), endpoint |-> None],
          error |-> None]
    ELSE [ok |-> FALSE, region |-> [name |-> None, endpoint |-> None],
          error |-> "Not a valid AWS region: mars-1"]

\* What the renderer can print: nothing, text, or bytes that are not UTF-8.
Streams == {"", "Error: Failed to load page", "Exit \\xFF"}
\* String::from_utf8_lossy: invalid bytes become U+FFFD.
FromUtf8Lossy(bytes) ==
    CASE bytes = "Exit \\xFF" -> "Exit \\u{FFFD}"
      [] OTHER -> bytes

PdfContents == {"", "%PDF-1.4"}

SeqsUpTo(S, n) == UNION { [1..k -> S] : k \in 0..n }

\* A page before its options are chosen.
BarePages(types) ==
    [page_type : types, html_url : Urls, html_base64 : Base64Inputs,
     options : {<<>>}]

\* The options of a request, as a sequence of (slot, option): slot 0 is the
\* request's own option list, slot i the option list of page i.
Placements(maxOptions) ==
    SeqsUpTo([slot : 0..MaxPages, opt : Options], maxOptions)

OptionsAt(placement, slot) ==
    LET sel == SelectSeq(placement, LAMBDA x : x.slot = slot)
    IN  [i \in 1..Len(sel) |-> sel[i].opt]

\* Requests of up to maxPages pages with up to maxOptions options in all.
RequestsOf(types, maxPages, maxOptions, regions) ==
    { [pages |-> [i \in 1..Len(bare) |->
                    [bare[i] EXCEPT !.options = OptionsAt(placement, i)]],
       options |-> OptionsAt(placement, 0),
       output |-> [bucket |-> "b", object_key |-> "k", region |-> r]] :
        bare \in SeqsUpTo(BarePages(types), maxPages),
        placement \in Placements(maxOptions),
        r \in regions }

\* The argument-building specification explores the option lists; the
\* pipeline specification explores page types, sources and regions.
ArgRequests == RequestsOf(ArgPageTypes, MaxPages, MaxOptions, {None})
Requests == RequestsOf(PageTypes, MaxPipelinePages, 0, RegionInputs)

(***************************************************************************)
(* The file system.                                                        *)
(***************************************************************************)
WriteFile(disk, path, contents) ==
    [p \in DOMAIN disk \cup {path} |-> IF p = path THEN contents ELSE disk[p]]

\* Mutant: the temp files are persisted instead of deleted on drop.
DropFilesLeak(disk, paths) == disk

\* Drop of NamedTempFile values: the files are deleted.
DropFiles(disk, paths) ==
    [p \in DOMAIN disk \ paths |-> disk[p]]

Range(s) == { s[i] : i \in 1..Len(s) }

(***************************************************************************)
(* build_args.                                                             *)
(***************************************************************************)
\* Mutant: the option values are not pushed.
RECURSIVE PushOptionsNamesOnly(_, _)
PushOptionsNamesOnly(argv, options) ==
    IF options = <<>> THEN argv
    ELSE PushOptionsNamesOnly(Append(argv, Head(options).name), Tail(options))

\* The loop body shared by global and per-page options.
RECURSIVE PushOptions(_, _)
PushOptions(argv, options) ==
    IF options = <<>> THEN argv
    ELSE LET option == Head(options)
             named == Append(argv, option.name)
         IN  PushOptions(IF option.value # None THEN Append(named, option.value)
                         ELSE named,
                         Tail(options))

\* Mutant: the flag is never appended.
PushLocalFileAccessNever(argv, page) == argv

\* The flag appended after a page's options.
PushLocalFileAccess(argv, page) ==
    IF page.html_base64 # None THEN Append(argv, LocalFileAccessFlag) ELSE argv

IoFailures(n) == [failAt : 0..n, kind : {"create", "write"}]

\* The state of build_args after its loop over the global options.
BuildStart(request, disk) ==
    [ok |-> TRUE, error |-> None, args |-> PushOptions(<<>>, request.options),
     files |-> <<>>, made |-> <<>>, starts |-> <<>>, disk |-> disk]

Fail(st, text) == [st EXCEPT !.ok = FALSE, !.error = text]

\* One iteration of the loop over the pages.  io names the temp-file
\* creation that the file system refuses (0: none) and how.
BuildPage(st, page, index, io) ==
    LET typed == [st EXCEPT !.args = Append(st.args, PageTypeToString(page.page_type)),
                            !.starts = Append(st.starts, Len(st.args) + 1)]
        k == Len(st.made) + 1
        path == InputPath(k)
        html == Base64Decode(page.html_base64)
        tail(s) == [s EXCEPT !.args =
                       PushLocalFileAccess(PushOptions(s.args, page.options), page)]
    IN  IF page.page_type = "TOC" THEN typed
        ELSE IF page.html_url # None
        THEN tail([typed EXCEPT !.args = Append(typed.args, page.html_url)])
        ELSE IF page.html_base64 # None
        THEN IF ~html.ok
             THEN Fail(typed, "Failed to decode Base64: Invalid byte 37, offset 0.")
             ELSE IF io.failAt = k /\ io.kind = "create"
             THEN Fail(typed, "Failed to create temp file: No space left on device (os error 28)")
             ELSE IF io.failAt = k /\ io.kind = "write"
             THEN Fail([typed EXCEPT
                          !.made = Append(typed.made, [path |-> path, page |-> index]),
                          !.disk = WriteFile(typed.disk, path, "")],
                       "Failed to write to temp file: No space left on device (os error 28)")
             ELSE tail([typed EXCEPT
                          !.made = Append(typed.made, [path |-> path, page |-> index]),
                          !.disk = WriteFile(typed.disk, path, html.bytes),
                          !.args = Append(typed.args, path),
                          !.files = Append(typed.files, path)])
        ELSE Fail(typed, "No page source specified")

RECURSIVE BuildPages(_, _, _, _)
BuildPages(st, pages, index, io) ==
    IF index > Len(pages) \/ ~st.ok THEN st
    ELSE BuildPages(BuildPage(st, pages[index], index, io), pages, index + 1, io)

build_args(request, disk, io) ==
    BuildPages(BuildStart(request, disk), request.pages, 1, io)


(***************************************************************************)
(* The executable locator of convert_inner.                                *)
(***************************************************************************)
TaskRoots == {None, "/var/task"}

\* layer: WKHTMLTOPDF_LAYER_PATH exists; taskRoot: LAMBDA_TASK_ROOT or None;
\* bundled: the binary bundled under the task root exists.
Locate(layer, taskRoot, bundled) ==
    IF layer
    THEN [path |-> WKHTMLTOPDF_LAYER_PATH, fontconfig |-> "/opt/fonts"]
    ELSE IF taskRoot # None /\ bundled
    THEN [path |-> taskRoot \o WKHTMLTOPDF_BUNDLED_PATH,
          fontconfig |-> taskRoot \o "/fonts"]
    ELSE [path |-> "/usr/bin/wkhtmltopdf", fontconfig |-> "/usr/share/fonts"]

(***************************************************************************)
(* upload.                                                                 *)
(***************************************************************************)
DefaultRegion == [name |-> "ap-southeast-2", endpoint |-> None]

\* Mutant: the region field is looked at before S3_ENDPOINT.
ResolveRegionFieldFirst(endpoint, s3_details) ==
    IF s3_details.region # None
    THEN RegionFromStr(s3_details.region)
    ELSE IF endpoint # None
    THEN [ok |-> TRUE, region |-> [name |-> "us-east-1", endpoint |-> endpoint],
          error |-> None]
    ELSE [ok |-> TRUE, region |-> DefaultRegion, error |-> None]

\* endpoint: the value of S3_ENDPOINT, or None when it is not set.
ResolveRegion(endpoint, s3_details) ==
    IF endpoint # None
    THEN [ok |-> TRUE, region |-> [name |-> "us-east-1", endpoint |-> endpoint],
          error |-> None]
    ELSE IF s3_details.region # None
    THEN RegionFromStr(s3_details.region)
    ELSE [ok |-> TRUE, region |-> DefaultRegion, error |-> None]

\* Mutant: the length of the read is not looked at.
ZeroBytesReadNever(contents) == FALSE

\* if length == 0, after file.read_to_end(&mut contents).
ZeroBytesRead(contents) == contents = ""

\* readOk, runtimeOk, acked: whether the read of the output file, the
\* creation of the tokio runtime and the put_object call succeed.
upload(path, s3_details, disk, endpoint, readOk, runtimeOk, acked) ==
    LET resolved == ResolveRegion(endpoint, s3_details)
        contents == disk[path]
        put_request == [bucket |-> s3_details.bucket, key |-> s3_details.object_key,
                        content_type |-> "application/pdf", body |-> contents]
        failed(text, regions) ==
            [ok |-> FALSE, error |-> text, region |-> regions, puts |-> <<>>]
    IN  IF ~resolved.ok THEN failed(resolved.error, <<>>)
        ELSE IF ~readOk
        THEN failed("Input/output error (os error 5)", <<resolved.region>>)
        ELSE IF ZeroBytesRead(contents)
        THEN failed("Failed to read PDF output", <<resolved.region>>)
        ELSE IF ~runtimeOk
        THEN failed("Too many open files (os error 24)", <<resolved.region>>)
        ELSE [ok |-> acked,
              error |-> IF acked THEN None ELSE "Access Denied",
              region |-> <<resolved.region>>,
              puts |-> << [request |-> put_request, region |-> resolved.region,
                           acked |-> acked] >>]

(***************************************************************************)
(* convert and convert_inner.                                              *)
(***************************************************************************)
DefaultResponse == [success |-> FALSE, messages |-> <<>>]
Ok(resp) == [ok |-> TRUE, response |-> resp, error |-> None]
Err(text) == [ok |-> FALSE, response |-> DefaultResponse, error |-> text]

\* Mutant: the error's text is lost.
convert_swallow(res) ==
    IF res.ok THEN res.response
    ELSE [success |-> FALSE, messages |-> <<>>]

\* convert: the match on convert_inner's result.
convert(res) ==
    IF res.ok THEN res.response
    ELSE [success |-> FALSE, messages |-> <<res.error>>]

\* Mutant: stderr is pushed before stdout.
FailureMessagesSwapped(out) ==
    LET withStderr == IF out.stderr # "" THEN <<FromUtf8Lossy(out.stderr)>> ELSE <<>>
    IN  IF out.stdout # "" THEN Append(withStderr, FromUtf8Lossy(out.stdout))
        ELSE withStderr

\* Mutant: stderr is not reported.
FailureMessagesStdoutOnly(out) ==
    IF out.stdout # "" THEN <<FromUtf8Lossy(out.stdout)>> ELSE <<>>

\* The messages of a failed render.
FailureMessages(out) ==
    LET withStdout == IF out.stdout # "" THEN <<FromUtf8Lossy(out.stdout)>> ELSE <<>>
    IN  IF out.stderr # "" THEN Append(withStdout, FromUtf8Lossy(out.stderr))
        ELSE withStdout

\* Mutant: the exit status is not looked at.
StatusSuccessAlways(out) == TRUE

\* if output.status.success(): the branch that uploads.
StatusSuccess(out) == out.success

\* Mutant: let (mut args, _) = ...: the files are dropped at the binding.
BindFilesDropped(built) ==
    [files |-> <<>>, disk |-> DropFiles(built.disk, Range(built.files))]

\* let (mut args, _files) = build_args(&ev)?: the files stay owned by
\* convert_inner until it returns.
BindFiles(built) == [files |-> built.files, disk |-> built.disk]

Stage(name, ok) == [name |-> name, ok |-> ok]

\* convert_inner returns res: its locals (the temp files) are dropped and
\* convert answers the runtime.
Return(res, disk, dropped) ==
    /\ result' = <<res>>
    /\ response' = <<convert(res)>>
    /\ fs' = DropFiles(disk, dropped)
    /\ pc' = "done"

Init ==
    /\ pc = "start"
    /\ ev \in Requests
    /\ fs = [p \in {} |-> ""]
    /\ created = <<>>
    /\ args = <<>>
    /\ pageStart = <<>>
    /\ files = <<>>
    /\ file = None
    /\ spawned = <<>>
    /\ output = <<>>
    /\ region = <<>>
    /\ puts = <<>>
    /\ uploadEnv = <<>>
    /\ stages = <<>>
    /\ result = <<>>
    /\ response = <<>>

\* let (mut args, _files) = build_args(&ev)?;
BuildArgs ==
    /\ pc = "start"
    /\ \E io \in IoFailures(Len(ev.pages)) :
         LET built == build_args(ev, fs, io)
         IN  /\ created' = built.made
             /\ stages' = Append(stages, Stage("build_args", built.ok))
             /\ IF built.ok
                THEN /\ args' = built.args
                     /\ pageStart' = built.starts
                     /\ files' = BindFiles(built).files
                     /\ fs' = BindFiles(built).disk
                     /\ pc' = "built"
                     /\ UNCHANGED <<result, response>>
                ELSE /\ Return(Err(built.error), built.disk,
                               { built.made[i].path : i \in 1..Len(built.made) })
                     /\ UNCHANGED <<args, pageStart, files>>
    /\ UNCHANGED <<ev, file, spawned, output, region, puts, uploadEnv>>

\* The output temp file is created and its path pushed onto args.
CreateOutputFile ==
    /\ pc = "built"
    /\ \E ok \in BOOLEAN :
         /\ stages' = Append(stages, Stage("tempfile", ok))
         /\ IF ok
            THEN /\ file' = OutputPath
                 /\ fs' = WriteFile(fs, OutputPath, "")
                 /\ args' = Append(args, OutputPath)
                 /\ pc' = "outfile"
                 /\ UNCHANGED <<result, response>>
            ELSE /\ Return(Err("Failed to create temp file: No space left on device (os error 28)"),
                           fs, Range(files))
                 /\ UNCHANGED <<file, args>>
    /\ UNCHANGED <<ev, created, pageStart, files, spawned, output, region, puts,
                   uploadEnv>>

\* The renderer is located and started; output() then waits for it.
Spawn ==
    /\ pc = "outfile"
    /\ \E layer \in BOOLEAN, taskRoot \in TaskRoots, bundled \in BOOLEAN,
          started \in BOOLEAN :
         LET located == Locate(layer, taskRoot, bundled)
         IN  /\ stages' = Append(stages, Stage("spawn", started))
             /\ IF started
                THEN /\ spawned' = Append(spawned,
                                          [path |-> located.path,
                                           fontconfig |-> located.fontconfig,
                                           stdin |-> "null", args |-> args])
                     /\ pc' = "running"
                     /\ UNCHANGED <<fs, result, response>>
                ELSE /\ Return(Err("No such file or directory (os error 2)"),
                               fs, Range(files) \cup {file})
                     /\ UNCHANGED spawned
    /\ UNCHANGED <<ev, created, args, pageStart, files, file, output, region, puts,
                   uploadEnv>>

\* The renderer terminates and output() returns.
RendererExit ==
    /\ pc = "running"
    /\ \E waited \in BOOLEAN, success \in BOOLEAN, out \in Streams, err \in Streams,
          pdf \in PdfContents :
         /\ stages' = Append(stages, Stage("render", waited /\ success))
         /\ IF waited
            THEN /\ output' = << [success |-> success, stdout |-> out, stderr |-> err] >>
                 /\ fs' = WriteFile(fs, OutputPath, pdf)
                 /\ pc' = "exited"
                 /\ UNCHANGED <<result, response>>
            ELSE /\ Return(Err("Interrupted system call (os error 4)"),
                           WriteFile(fs, OutputPath, pdf), Range(files) \cup {file})
                 /\ UNCHANGED output
    /\ UNCHANGED <<ev, created, args, pageStart, files, file, spawned, region, puts,
                   uploadEnv>>

\* The else branch of output.status.success().
ReportFailure ==
    /\ pc = "exited"
    /\ ~StatusSuccess(output[1])
    /\ Return(Ok([success |-> output[1].success,
                  messages |-> FailureMessages(output[1])]),
              fs, Range(files) \cup {file})
    /\ UNCHANGED <<ev, created, args, pageStart, files, file, spawned, output,
                   region, puts, uploadEnv, stages>>

\* upload(&mut file, &ev.output)?; Ok(response)
Upload ==
    /\ pc = "exited"
    /\ StatusSuccess(output[1])
    /\ \E endpoint \in Endpoints, readOk \in BOOLEAN, runtimeOk \in BOOLEAN,
          acked \in BOOLEAN :
         LET up == upload(file, ev.output, fs, endpoint, readOk, runtimeOk, acked)
         IN  /\ uploadEnv' = << [endpoint |-> endpoint, contents |-> fs[file],
                               readOk |-> readOk, runtimeOk |-> runtimeOk,
                               acked |-> acked] >>
             /\ stages' = Append(stages, Stage("upload", up.ok))
             /\ region' = up.region
             /\ puts' = puts \o up.puts
             /\ Return(IF up.ok
                       THEN Ok([success |-> output[1].success, messages |-> <<>>])
                       ELSE Err(up.error),
                       fs, Range(files) \cup {file})
    /\ UNCHANGED <<ev, created, args, pageStart, files, file, spawned, output>>

Next ==
    \/ BuildArgs
    \/ CreateOutputFile
    \/ Spawn
    \/ RendererExit
    \/ ReportFailure
    \/ Upload

Spec == Init /\ [][Next]_vars

\* The argument-building specification: requests with options, followed
\* until the argument vector is handed to the renderer.
InitArgs ==
    /\ pc = "start"
    /\ ev \in ArgRequests
    /\ fs = [p \in {} |-> ""]
    /\ created = <<>>
    /\ args = <<>>
    /\ pageStart = <<>>
    /\ files = <<>>
    /\ file = None
    /\ spawned = <<>>
    /\ output = <<>>
    /\ region = <<>>
    /\ puts = <<>>
    /\ uploadEnv = <<>>
    /\ stages = <<>>
    /\ result = <<>>
    /\ response = <<>>

NextArgs ==
    \/ BuildArgs
    \/ CreateOutputFile
    \/ Spawn

SpecArgs == InitArgs /\ [][NextArgs]_vars

(***************************************************************************)
(* Properties.                                                             *)
(***************************************************************************)
Done == pc = "done"
Last(s) == s[Len(s)]

StageOrder == <<"build_args", "tempfile", "spawn", "render", "upload">>

BuildErrors ==
    { "Failed to decode Base64: Invalid byte 37, offset 0.",
      "Failed to create temp file: No space left on device (os error 28)",
      "Failed to write to temp file: No space left on device (os error 28)",
      "No page source specified" }
UploadErrors ==
    { "Not a valid AWS region: mars-1", "Input/output error (os error 5)",
      "Failed to read PDF output", "Too many open files (os error 24)",
      "Access Denied" }

\* The error texts a stage can raise.
ErrorsOf(stage) ==
    CASE stage = "build_args" -> BuildErrors
      [] stage = "tempfile" ->
            {"Failed to create temp file: No space left on device (os error 28)"}
      [] stage = "spawn" -> {"No such file or directory (os error 2)"}
      [] stage = "render" -> {"Interrupted system call (os error 4)"}
      [] stage = "upload" -> UploadErrors

\* A stage ended in a fatal error: any failed stage, except a renderer that
\* ran to its end and reported a failure status.
Fatal(i) ==
    /\ ~stages[i].ok
    /\ stages[i].name = "render" => output = <<>>

\* C1: convert always returns a Response; when a stage of the pipeline
\* (argument building, output temp file, renderer spawn, upload) raises a
\* fatal error, that Response is success = false with the error's text as
\* its only message.
C1_FatalErrorBecomesResponse ==
    Done =>
        /\ Len(response) = 1
        /\ Len(result) = 1
        /\ \A i \in 1..Len(stages) :
             Fatal(i) =>
                /\ ~result[1].ok
                /\ result[1].error \in ErrorsOf(stages[i].name)
                /\ response[1] = [success |-> FALSE,
                                  messages |-> <<result[1].error>>]
        /\ ~result[1].ok => \E i \in 1..Len(stages) : Fatal(i)

C1_Witness ==
    /\ Done
    /\ Len(stages) = 5
    /\ ~stages[5].ok
    /\ response[1] = [success |-> FALSE, messages |-> <<"Access Denied">>]

\* The text of a captured stream, as the handler reports it.
ExpectedText(bytes) ==
    IF bytes = "Exit \\xFF" THEN "Exit \\u{FFFD}" ELSE bytes

ExpectedDiagnostics(out) ==
    (IF out.stdout = "" THEN <<>> ELSE <<ExpectedText(out.stdout)>>)
        \o (IF out.stderr = "" THEN <<>> ELSE <<ExpectedText(out.stderr)>>)

\* C2: when the renderer exits with a non-success status, the Response has
\* success = false, its messages are the non-empty stdout then the non-empty
\* stderr, each a separate entry, and no put_object call is made.
C2_RendererFailureReported ==
    (Len(output) = 1 /\ ~output[1].success) =>
        /\ puts = <<>>
        /\ uploadEnv = <<>>
        /\ Done =>
             /\ response[1].success = FALSE
             /\ response[1].messages = ExpectedDiagnostics(output[1])

C2_Witness ==
    /\ Done
    /\ Len(output) = 1
    /\ ~output[1].success
    /\ response[1].messages =
           <<"Error: Failed to load page", "Exit \\u{FFFD}">>

EmptyOutput ==
    /\ Len(output) = 1
    /\ output[1].success
    /\ Len(uploadEnv) = 1
    /\ uploadEnv[1].contents = ""

\* C3 as stated: a renderer that exits zero and leaves an empty output file
\* always ends in the EmptyOutputError Response, with no put_object call.
C3_Original ==
    (Done /\ EmptyOutput) =>
        /\ response[1] = [success |-> FALSE,
                          messages |-> <<"Failed to read PDF output">>]
        /\ puts = <<>>

\* C3: a renderer that exits zero and leaves an empty output file ends in a
\* non-success Response with one message and no put_object call; the message
\* is the EmptyOutputError unless region resolution failed first
\* (InvalidRegionError) or the read of the output file itself failed.
C3_EmptyOutputNeverUploaded ==
    (Done /\ EmptyOutput) =>
        /\ puts = <<>>
        /\ response[1].success = FALSE
        /\ response[1].messages =
             << IF uploadEnv[1].endpoint = None /\ ev.output.region = "mars-1"
                THEN "Not a valid AWS region: mars-1"
                ELSE IF ~uploadEnv[1].readOk
                THEN "Input/output error (os error 5)"
                ELSE "Failed to read PDF output" >>

C3_Witness ==
    /\ Done
    /\ EmptyOutput
    /\ uploadEnv[1].readOk
    /\ uploadEnv[1].runtimeOk
    /\ uploadEnv[1].acked
    /\ response[1].messages = <<"Failed to read PDF output">>

\* The region a valid region field names.
ExpectedRegion(field) ==
    CASE field = "EU-West-1" -> [name |-> "eu-west-1", endpoint |-> None]

\* C4: region resolution: S3_ENDPOINT set gives the custom endpoint whatever
\* the region field holds; otherwise a valid region field is used, an
\* unparseable one fails the upload with InvalidRegionError, and an absent
\* one gives the default region.
C4_RegionPriority ==
    Len(uploadEnv) = 1 =>
        LET endpoint == uploadEnv[1].endpoint
            field == ev.output.region
        IN  /\ endpoint # None =>
                 region = << [name |-> "us-east-1", endpoint |-> endpoint] >>
            /\ (endpoint = None /\ field = "EU-West-1") =>
                 region = << ExpectedRegion(field) >>
            /\ (endpoint = None /\ field = "mars-1") =>
                 /\ region = <<>>
                 /\ puts = <<>>
                 /\ response = << [success |-> FALSE,
                                   messages |-> <<"Not a valid AWS region: mars-1">>] >>
            /\ (endpoint = None /\ field = None) =>
                 region = << [name |-> "ap-southeast-2", endpoint |-> None] >>
            /\ \A i \in 1..Len(puts) : <<puts[i].region>> = region

C4_Witness ==
    /\ Len(uploadEnv) = 1
    /\ uploadEnv[1].endpoint = "http://localhost:9000"
    /\ ev.output.region = "mars-1"
    /\ Len(puts) = 1
    /\ puts[1].region = [name |-> "us-east-1", endpoint |-> "http://localhost:9000"]
    /\ puts[1].acked

\* The tokens of an option list: each name, then its value if it has one.
RECURSIVE OptionTokens(_)
OptionTokens(options) ==
    IF options = <<>> THEN <<>>
    ELSE (IF Head(options).value = None THEN <<Head(options).name>>
          ELSE <<Head(options).name, Head(options).value>>)
         \o OptionTokens(Tail(options))

\* The tokens build_args emitted for page i (read once build_args returned).
PageTokens(i) ==
    SubSeq(args, pageStart[i],
           IF i = Len(pageStart) THEN Len(args) ELSE pageStart[i + 1] - 1)

IsToc(page) == page.page_type = "TOC"
IsInline(page) == ~IsToc(page) /\ page.html_url = None /\ page.html_base64 # None
IsMissing(page) == ~IsToc(page) /\ page.html_url = None /\ page.html_base64 = None

\* C5 as stated: every page with html_base64 set ends with the flag, every
\* page with html_url set does not.
C5_Original ==
    pc = "built" =>
        \A i \in 1..Len(ev.pages) :
            /\ ev.pages[i].html_base64 # None =>
                 Last(PageTokens(i)) = LocalFileAccessFlag
            /\ ev.pages[i].html_url # None =>
                 Last(PageTokens(i)) # LocalFileAccessFlag

\* C5: when build_args succeeds, every page that is not a TableOfContents
\* page and has html_base64 set ends with --enable-local-file-access; a
\* TableOfContents page is its type token alone; a page with html_url set
\* and html_base64 not set gets no token after its own options, so it ends
\* with the flag only if the request's own last token for it is that text.
C5_LocalFileAccessFlag ==
    pc = "built" =>
        \A i \in 1..Len(ev.pages) :
            LET page == ev.pages[i]
                own == <<page.html_url>> \o OptionTokens(page.options)
            IN  /\ (~IsToc(page) /\ page.html_base64 # None) =>
                     Last(PageTokens(i)) = LocalFileAccessFlag
                /\ IsToc(page) =>
                     PageTokens(i) = <<PageTypeToString(page.page_type)>>
                /\ (~IsToc(page) /\ page.html_url # None /\ page.html_base64 = None) =>
                     /\ Len(PageTokens(i)) = 1 + Len(own)
                     /\ Last(PageTokens(i)) = Last(own)
                     /\ Last(own) # LocalFileAccessFlag =>
                          Last(PageTokens(i)) # LocalFileAccessFlag

C5_Witness ==
    /\ pc = "built"
    /\ Len(ev.pages) = 2
    /\ IsInline(ev.pages[1])
    /\ ev.pages[1].options # <<>>
    /\ Last(PageTokens(1)) = LocalFileAccessFlag
    /\ ev.pages[2].html_url # None
    /\ ev.pages[2].html_base64 = None
    /\ ~IsToc(ev.pages[2])
    /\ Last(PageTokens(2)) = ev.pages[2].html_url

MissingPages == { i \in 1..Len(ev.pages) : IsMissing(ev.pages[i]) }
FirstMissing == CHOOSE m \in MissingPages : \A n \in MissingPages : m <= n

\* C6 as stated: a request with a page lacking both sources fails with
\* MissingSourceError, no temp file is made for that page, and the temp
\* files of earlier pages still exist after the failure.
C6_Original ==
    (pc # "start" /\ MissingPages # {}) =>
        /\ Done
        /\ result = << Err("No page source specified") >>
        /\ \A i \in 1..Len(created) :
             /\ created[i].page \notin MissingPages
             /\ created[i].page < FirstMissing => created[i].path \in DOMAIN fs

\* C6: a request with a non-TableOfContents page lacking both sources makes
\* build_args fail, with MissingSourceError unless an earlier inline page
\* fails first (decode or temp-file error); no temp file is made for that
\* page, and the temp files made for earlier pages are deleted when
\* build_args returns the error: none is left behind.
C6_MissingSourceFails ==
    (pc # "start" /\ MissingPages # {}) =>
        LET earlierInline ==
                \E j \in 1..(FirstMissing - 1) : IsInline(ev.pages[j])
        IN  /\ Done
            /\ stages = << Stage("build_args", FALSE) >>
            /\ ~result[1].ok
            /\ result[1].error \in BuildErrors
            /\ ~earlierInline => result[1].error = "No page source specified"
            /\ result[1].error # "No page source specified" => earlierInline
            /\ \A i \in 1..Len(created) :
                 /\ created[i].page < FirstMissing
                 /\ created[i].path \notin DOMAIN fs
            /\ DOMAIN fs = {}

C6_Witness ==
    /\ Done
    /\ MissingPages = {2}
    /\ IsInline(ev.pages[1])
    /\ Len(created) = 1
    /\ created[1].page = 1
    /\ result[1].error = "No page source specified"
    /\ DOMAIN fs = {}

\* The source token of page i: its URL, else the temp file made for it.
SourceToken(i) ==
    IF ev.pages[i].html_url # None THEN ev.pages[i].html_url
    ELSE (CHOOSE c \in Range(created) : c.page = i).path

\* The segment of page i, with or without the trailing flag of pages that
\* have html_base64 set.
Segment(i, withFlag) ==
    LET page == ev.pages[i]
    IN  IF IsToc(page) THEN <<PageTypeToString(page.page_type)>>
        ELSE <<PageTypeToString(page.page_type), SourceToken(i)>>
             \o OptionTokens(page.options)
             \o (IF withFlag /\ page.html_base64 # None
                 THEN <<LocalFileAccessFlag>> ELSE <<>>)

RECURSIVE Segments(_, _)
Segments(n, withFlag) ==
    IF n = 0 THEN <<>>
    ELSE Segments(n - 1, withFlag) \o Segment(n, withFlag)

ExpectedArgs(withFlag) ==
    OptionTokens(ev.options) \o Segments(Len(ev.pages), withFlag) \o <<OutputPath>>

SilentFailure ==
    /\ Len(output) = 1
    /\ ~output[1].success
    /\ output[1].stdout = ""
    /\ output[1].stderr = ""

\* C8 as stated: messages is empty when success is true and holds at least
\* one string when success is false.
C8_Original ==
    Done =>
        /\ response[1].success => response[1].messages = <<>>
        /\ ~response[1].success => Len(response[1].messages) >= 1

\* C8: messages is empty when success is true; when success is false it
\* holds at least one diagnostic string, unless the renderer exited with a
\* non-success status having written nothing to stdout and stderr, in which
\* case messages is empty.
C8_MessagesMatchSuccess ==
    Done =>
        /\ response[1].success => response[1].messages = <<>>
        /\ (~response[1].success /\ ~SilentFailure) =>
             Len(response[1].messages) >= 1
        /\ SilentFailure => response[1] = [success |-> FALSE, messages |-> <<>>]

C8_Witness ==
    /\ Done
    /\ Len(output) = 1
    /\ ~output[1].success
    /\ output[1].stdout = ""
    /\ output[1].stderr = "Error: Failed to load page"
    /\ response[1] = [success |-> FALSE,
                      messages |-> <<"Error: Failed to load page">>]

\* C9: every temp input file build_args made for an inline page exists, and
\* is named in the renderer's arguments, from build_args' return until the
\* renderer has terminated; once the request is finished none exists.
C9_InputFilesOutliveRenderer ==
    /\ pc \in {"built", "outfile", "running", "exited"} =>
         \A i \in 1..Len(created) :
            /\ created[i].path \in DOMAIN fs
            /\ fs[created[i].path] = "<b>"
            /\ IsInline(ev.pages[created[i].page])
    /\ pc = "running" =>
         /\ \A i \in 1..Len(created) : created[i].path \in Range(spawned[1].args)
         /\ \A i \in 1..Len(ev.pages) :
              IsInline(ev.pages[i]) => \E k \in 1..Len(created) : created[k].page = i
    /\ Done => \A i \in 1..Len(created) : created[i].path \notin DOMAIN fs

C9_Witness ==
    /\ pc = "running"
    /\ Len(created) = 1
    /\ created[1].path \in DOMAIN fs
    /\ created[1].path \in Range(spawned[1].args)

\* C10: the stages run in the order build arguments, spawn renderer,
\* upload, and stop at the first failure: a spawn only after build_args
\* succeeded, at most one put_object call and only after a success exit
\* status, neither spawn nor put after a build_args failure, and
\* success = true only when that put was acknowledged.
C10_StagesInOrder ==
    /\ Len(stages) <= Len(StageOrder)
    /\ \A i \in 1..Len(stages) :
         /\ stages[i].name = StageOrder[i]
         /\ i < Len(stages) => stages[i].ok
    /\ Len(spawned) <= 1
    /\ Len(puts) <= 1
    /\ spawned # <<>> => stages[1] = Stage("build_args", TRUE)
    /\ puts # <<>> =>
         /\ spawned # <<>>
         /\ Len(output) = 1
         /\ output[1].success
    /\ (stages # <<>> /\ ~stages[1].ok) => (Done /\ spawned = <<>> /\ puts = <<>>)
    /\ (Done /\ response[1].success) => (Len(puts) = 1 /\ puts[1].acked)

C10_Witness ==
    /\ Done
    /\ response[1] = [success |-> TRUE, messages |-> <<>>]
    /\ Len(puts) = 1
    /\ puts[1].acked
    /\ puts[1].request = [bucket |-> "b", key |-> "k",
                          content_type |-> "application/pdf", body |-> "%PDF-1.4"]

====
